---- MODULE Spec2Model ----
(***************************************************************************)
(* Model of api/chat.js: the serverless handler that proxies one chat      *)
(* completion request to the Fireworks inference API and relays either a   *)
(* buffered JSON answer or a server-sent-event stream.                     *)
(*                                                                         *)
(* One behaviour is one invocation of the handler.  The request (method,   *)
(* body), the process configuration (API key) and everything the upstream  *)
(* and the caller's channel do are chosen by the environment.              *)
(*                                                                         *)
(* Representation.  A JavaScript value is a tagged record (Undefined,      *)
(* Null, Bool, Dec, Str, Arr).  A number is kept in tenths, so 0.3 is      *)
(* Dec(0, 3) and 8192 is Dec(8192, 0).  A message text is a sequence of    *)
(* text fragments whose concatenation is the text, so that                 *)
(* String.prototype.includes can be computed.  An upstream chunk is a      *)
(* sequence of bytes (two hex digits each); a write to the caller is a     *)
(* sequence of characters.                                                 *)
(***************************************************************************)
EXTENDS Integers, Sequences, FiniteSets, TLC

VARIABLES
    method,        \* req.method
    apiKey,        \* process.env.FIREWORKS_API_KEY is set
    reqBody,       \* req.body
    pc,            \* position of the handler
    headers,       \* response headers staged with res.setHeader / res.json
    status,        \* res.statusCode as set by res.status (0: never set)
    jsonBody,      \* the body sent with res.json
    writes,        \* the successful res.write calls, in order
    ended,         \* number of times the response was ended (res.end, res.json)
    headersSent,   \* res.headersSent
    chan,          \* the caller's channel: "ok" or "broken"
    upstreamCalls, \* number of fetch calls issued
    sent,          \* the request handed to fetch
    response,      \* the upstream response fetch resolved to
    errorText,     \* what response.text() resolved to on a failed request
    chunks,        \* the chunks reader.read() has delivered, in order
    decoder,       \* the TextDecoder: bytes held back, byte order mark seen
    interrupted,   \* the relay's catch block was entered
    relayedAtFault,\* the writes done when the relay's catch block was entered
    err            \* the value caught by the outer catch

vars == <<method, apiKey, reqBody, pc, headers, status, jsonBody, writes, ended,
          headersSent, chan, upstreamCalls, sent, response, errorText, chunks,
          decoder, interrupted, relayedAtFault, err>>

----------------------------------------------------------------------------
(* Bounds of the model *)

\* Largest number of chunks the upstream delivers on one stream.
MaxChunks == 3
\* Largest number of optional parameters one request sets.
MaxVaried == 2

----------------------------------------------------------------------------
(* JavaScript values *)

Undefined == [t |-> "undefined"]
Null == [t |-> "null"]
Bool(b) == [t |-> "bool", b |-> b]
Dec(i, f) == [t |-> "num", n |-> 10 * i + f]
Str(s) == [t |-> "str", s |-> s]
Arr(a) == [t |-> "arr", a |-> a]

\* ToBoolean
Truthy(v) ==
    CASE v.t = "undefined" -> FALSE
      [] v.t = "null" -> FALSE
      [] v.t = "bool" -> v.b
      [] v.t = "num" -> v.n # 0
      [] v.t = "str" -> v.s # ""
      [] v.t = "arr" -> TRUE

\* a || b
Or(a, b) == IF Truthy(a) THEN a ELSE b

\* v.length > 0
LengthPositive(v) ==
    CASE v.t = "arr" -> Len(v.a) > 0
      [] v.t = "str" -> v.s # ""
      [] OTHER -> FALSE

\* text.includes(word), on texts kept as sequences of fragments
Includes(text, word) == \E i \in DOMAIN text : text[i] = word

----------------------------------------------------------------------------
(* The inbound request *)

Methods == {"OPTIONS", "POST", "GET"}

ParamNames ==
    {"temperature", "top_p", "top_k", "max_tokens", "presence_penalty",
     "frequency_penalty", "stream"}

Keys == {"model", "messages", "tools", "tool_choice"} \cup ParamNames

\* A value the caller may give for an optional parameter: a truthy one,
\* different for every parameter and different from every default ...
TruthyValue(k) ==
    CASE k = "temperature" -> Dec(1, 5)
      [] k = "top_p" -> Dec(0, 5)
      [] k = "top_k" -> Dec(10, 0)
      [] k = "max_tokens" -> Dec(256, 0)
      [] k = "presence_penalty" -> Dec(0, 7)
      [] k = "frequency_penalty" -> Dec(1, 2)
      [] k = "stream" -> Bool(TRUE)

\* ... or a falsy one: 0 for a number, false for stream.
FalsyValue(k) == IF k = "stream" THEN Bool(FALSE) ELSE Dec(0, 0)

EmptyFields == [k \in Keys |-> Undefined]

ValidFields ==
    [EmptyFields EXCEPT !["model"] = Str("deepseek-v3-0324"),
                        !["messages"] = Arr(<<"hello">>)]

\* Valid requests that set at most MaxVaried optional parameters.
ParamFields ==
    LET Shapes == {s \in [ParamNames -> {"absent", "falsy", "truthy"}] :
                     Cardinality({k \in ParamNames : s[k] # "absent"}) <= MaxVaried}
        Value(s, k) == CASE s[k] = "absent" -> Undefined
                         [] s[k] = "falsy" -> FalsyValue(k)
                         [] s[k] = "truthy" -> TruthyValue(k)
    IN  {[k \in Keys |-> IF k \in ParamNames THEN Value(s, k) ELSE ValidFields[k]] :
           s \in Shapes}

\* Requests that vary the two required fields.
ValidationFields ==
    {[EmptyFields EXCEPT !["model"] = m, !["messages"] = ms, !["stream"] = st] :
        m \in {Undefined, Null, Str(""), Str("deepseek-v3-0324")},
        ms \in {Undefined, Null, Arr(<<>>), Arr(<<"hello">>)},
        st \in {Undefined, Bool(TRUE)}}

\* Valid requests that vary tools and tool_choice.
ToolFields ==
    {[ValidFields EXCEPT !["tools"] = tl, !["tool_choice"] = tc, !["stream"] = st] :
        tl \in {Undefined, Null, Arr(<<>>), Arr(<<"t1">>), Arr(<<"t1", "t2">>)},
        tc \in {Undefined, Str(""), Str("auto")},
        st \in {Undefined, Bool(TRUE)}}

\* req.body: absent (undefined or null), undecodable (reading it throws),
\* a text that is no object, or an object.
RequestBodies ==
    {[kind |-> "absent"], [kind |-> "invalid"], [kind |-> "text"]}
    \cup {[kind |-> "object", fields |-> f] :
            f \in ParamFields \cup ValidationFields \cup ToolFields}

\* The destructuring of line 29, for a body it does not throw on.
Field(b, k) == IF b.kind = "object" THEN b.fields[k] ELSE Undefined

\* Line 29 throws: destructuring undefined or null is a TypeError, and the
\* body getter throws on an undecodable body.
ExtractThrows(b) == b.kind \in {"absent", "invalid"}

ExtractError(b) ==
    IF b.kind = "absent"
    THEN [hasMessage |-> TRUE,
          message |-> <<"Cannot destructure property 'model' of 'req.body'">>]
    ELSE [hasMessage |-> TRUE, message |-> <<"Invalid JSON">>]

\* !model || !messages
MissingRequiredAnd(b) == ~Truthy(Field(b, "model")) /\ ~Truthy(Field(b, "messages"))
MissingRequired(b) == ~Truthy(Field(b, "model")) \/ ~Truthy(Field(b, "messages"))

----------------------------------------------------------------------------
(* The upstream payload *)

\* a ?? b
OrNullish(a, b) == IF a.t \in {"undefined", "null"} THEN b ELSE a

\* param || default, as each line of the object literal applies it
DefaultedNullish(v, d) == OrNullish(v, d)
Defaulted(v, d) == Or(v, d)

\* The object literal of lines 49-60.
PayloadBase(b) ==
    [model |-> Field(b, "model"),
     messages |-> Field(b, "messages"),
     temperature |-> Defaulted(Field(b, "temperature"), Dec(0, 3)),
     top_p |-> Defaulted(Field(b, "top_p"), Dec(0, 9)),
     top_k |-> Defaulted(Field(b, "top_k"), Dec(40, 0)),
     max_tokens |-> Defaulted(Field(b, "max_tokens"), Dec(8192, 0)),
     presence_penalty |-> Defaulted(Field(b, "presence_penalty"), Dec(0, 0)),
     frequency_penalty |-> Defaulted(Field(b, "frequency_penalty"), Dec(0, 0)),
     stream |-> Defaulted(Field(b, "stream"), Bool(FALSE))]

\* tools && tools.length > 0
ToolsProvidedLoose(b) == Truthy(Field(b, "tools"))
ToolsProvided(b) == Truthy(Field(b, "tools")) /\ LengthPositive(Field(b, "tools"))

\* Lines 49-68: the literal, then tools and tool_choice.
FireworksPayload(b) ==
    LET base == PayloadBase(b)
        withTools == base @@ ("tools" :> Field(b, "tools"))
    IN  IF ToolsProvided(b)
        THEN IF Truthy(Field(b, "tool_choice"))
             THEN withTools @@ ("tool_choice" :> Field(b, "tool_choice"))
             ELSE withTools
        ELSE base

\* JSON.stringify of an object: a key whose value is undefined is left out.
Stringify(p) == [k \in {x \in DOMAIN p : p[x].t # "undefined"} |-> p[k]]

\* Lines 70-74 and 78.
FireworksHeaders(streaming) ==
    LET base == ("Authorization" :> "Bearer <apiKey>")
                @@ ("Content-Type" :> "application/json")
                @@ ("User-Agent" :> "Advanced-CoD-Studio/1.0")
    IN  IF streaming THEN base @@ ("Accept" :> "text/event-stream") ELSE base

\* The fetch call of lines 80-84 and 139-143.
UpstreamRequest(b) ==
    [url |-> "https://api.fireworks.ai/inference/v1/chat/completions",
     method |-> "POST",
     headers |-> FireworksHeaders(Truthy(Field(b, "stream"))),
     body |-> Stringify(FireworksPayload(b))]

----------------------------------------------------------------------------
(* The upstream *)

\* Status codes the upstream answers with.
Statuses == {200, 400, 401, 404, 429, 500, 503}

\* response.ok
Ok(r) == r.status >= 200 /\ r.status <= 299

\* What fetch may resolve to: a status, with or without a body channel.
Responses == [status : Statuses, hasBody : BOOLEAN]

\* What response.text() may resolve to on a failed request.
ErrorTexts == {<<"{\"error\":\"model overloaded\"}">>, <<>>}

\* What response.json() may resolve to: with and without usage statistics.
Datas ==
    {[id |-> "cmpl-1", usage |-> [total_tokens |-> 12]], [id |-> "cmpl-2"]}

\* What fetch may reject with: errors with a message text, and a thrown
\* value that has no message property.
FetchErrors ==
    {[hasMessage |-> TRUE, message |-> <<"fetch", " failed">>],
     [hasMessage |-> TRUE, message |-> <<"network ", "timeout", " at: upstream">>],
     [hasMessage |-> TRUE, message |-> <<"socket hang up">>],
     [hasMessage |-> FALSE, message |-> <<>>]}

\* What response.text() and response.json() reject with.
BodyReadError == [hasMessage |-> TRUE, message |-> <<"terminated">>]
JsonParseError == [hasMessage |-> TRUE, message |-> <<"Unexpected end of JSON input">>]

\* What a write to a broken channel throws.
ChannelError == [hasMessage |-> TRUE, message |-> <<"write EPIPE">>]

NoError == [hasMessage |-> FALSE, message |-> <<"(nothing caught)">>]
None == [t |-> "none"]

\* Bytes of the stream: an ASCII byte, the lead byte of a two-byte and of a
\* three-byte character, and continuation bytes.
IsAscii(b) == b = "41"
IsLead(b) == b \in {"C3", "EF"}
IsContinuation(b) == b \in {"A9", "BB", "BF", "BD"}

\* The length of the character a lead byte starts.
CharLength(b) == IF b = "EF" THEN 3 ELSE 2

\* A character is kept as its UTF-8 bytes.
Replacement == <<"EF", "BF", "BD">>
ByteOrderMark == <<"EF", "BB", "BF">>

\* The chunks reader.read() may deliver.
Chunks == {<<"41">>, <<"C3">>, <<"A9">>, <<"C3", "A9">>, <<"EF", "BB", "BF">>}

\* The UTF-8 decoder of TextDecoder: `held` are the bytes of a character
\* started and not finished.  A byte that cannot continue the held
\* character makes it U+FFFD and is decoded again on its own.
RECURSIVE Decode(_, _)
Decode(bytes, held) ==
    IF bytes = <<>>
    THEN [text |-> <<>>, held |-> held]
    ELSE LET b == Head(bytes)
             rest == Decode(Tail(bytes), <<>>)
             again == Decode(bytes, <<>>)
             char == held \o <<b>>
         IN  IF held = <<>>
             THEN IF IsLead(b)
                  THEN Decode(Tail(bytes), <<b>>)
                  ELSE IF IsAscii(b)
                  THEN [text |-> <<(<<b>>)>> \o rest.text, held |-> rest.held]
                  ELSE [text |-> <<Replacement>> \o rest.text, held |-> rest.held]
             ELSE IF IsContinuation(b)
                  THEN IF Len(char) = CharLength(char[1])
                       THEN [text |-> <<char>> \o rest.text, held |-> rest.held]
                       ELSE Decode(Tail(bytes), char)
                  ELSE [text |-> <<Replacement>> \o again.text, held |-> again.held]

\* The first character of the stream is dropped when it is a byte order mark
\* (the decoder is built with ignoreBOM false, line 120).
WithoutMark(text, bomSeen) ==
    IF ~bomSeen /\ text # <<>> /\ Head(text) = ByteOrderMark THEN Tail(text) ELSE text

NewDecoder == [held |-> <<>>, bomSeen |-> FALSE]

\* decoder.decode(value): without the stream option the decoder is flushed
\* and reset after every chunk, and an unfinished character becomes U+FFFD.
DecodeChunkFlushed(bytes, dec) ==
    LET d == Decode(bytes, <<>>)
        text == d.text \o (IF d.held = <<>> THEN <<>> ELSE <<Replacement>>)
    IN  [text |-> WithoutMark(text, FALSE), decoder |-> NewDecoder]

\* decoder.decode(value, { stream: true }), line 127.
DecodeChunk(bytes, dec) ==
    LET d == Decode(bytes, dec.held)
    IN  [text |-> WithoutMark(d.text, dec.bomSeen),
         decoder |-> [held |-> d.held, bomSeen |-> dec.bomSeen \/ d.text # <<>>]]

\* The literal of line 133: the event, then a blank line.
SyntheticEvent ==
    <<(<<"data: {\"error\": \"Streaming interrupted\"}">>), (<<"\n">>), (<<"\n">>)>>

----------------------------------------------------------------------------
(* Error messages *)

RateLimitMessage == <<"Rate limit exceeded. DeepSeek-V3-0324 has usage limits.">>
AuthMessage == <<"Invalid API key or insufficient permissions for DeepSeek-V3-0324.">>
BadFormatMessage == <<"Invalid request format for DeepSeek-V3-0324. Check parameters.">>
UnavailableMessage == <<"DeepSeek-V3-0324 service temporarily unavailable. Try again later.">>
NetworkMessage ==
    <<"Network error connecting to DeepSeek-V3-0324. Check your internet connection.">>
TimeoutMessage ==
    <<"Request timeout with DeepSeek-V3-0324. The model may be processing a complex request.">>

\* Lines 91-98: the streaming branch translates 429, 401 and 400.
StreamErrorMessage(st, text) ==
    CASE st = 429 -> RateLimitMessage
      [] st = 401 -> AuthMessage
      [] st = 400 -> BadFormatMessage
      [] OTHER -> text

\* The translation with the 503 line left out.
ErrorMessageWithout503(st, text) ==
    CASE st = 429 -> RateLimitMessage
      [] st = 401 -> AuthMessage
      [] st = 400 -> BadFormatMessage
      [] OTHER -> text

\* Lines 150-159: the non-streaming branch translates 503 as well.
ErrorMessage(st, text) ==
    CASE st = 429 -> RateLimitMessage
      [] st = 401 -> AuthMessage
      [] st = 400 -> BadFormatMessage
      [] st = 503 -> UnavailableMessage
      [] OTHER -> text

\* Lines 185-190.
CatchMessage(message) ==
    IF Includes(message, "fetch") THEN NetworkMessage
    ELSE IF Includes(message, "timeout") THEN TimeoutMessage
    ELSE message

ApiFailure(message) == [error |-> "API request failed", message |-> message]

ConfigurationFailure ==
    [error |-> "Server configuration error",
     message |-> <<"API key not configured. Please check server environment variables.">>]

BadRequestFailure ==
    [error |-> "Bad request",
     message |-> <<"Missing required fields: model and messages">>]

----------------------------------------------------------------------------
(* The caller's response object *)

\* res.setHeader(name, value)
SetHeader(h, name, value) ==
    [x \in DOMAIN h \cup {name} |-> IF x = name THEN value ELSE h[x]]

\* Lines 3-5.
CorsHeaders ==
    SetHeader(SetHeader(SetHeader(<<>>,
        "Access-Control-Allow-Origin", "*"),
        "Access-Control-Allow-Methods", "GET, POST, OPTIONS"),
        "Access-Control-Allow-Headers", "Content-Type, Authorization")

\* Lines 107-112.
StreamingHeaders(h) ==
    SetHeader(SetHeader(SetHeader(SetHeader(SetHeader(SetHeader(h,
        "Content-Type", "text/event-stream"),
        "Cache-Control", "no-cache"),
        "Connection", "keep-alive"),
        "Access-Control-Allow-Origin", "*"),
        "Access-Control-Allow-Methods", "GET, POST, OPTIONS"),
        "Access-Control-Allow-Headers", "Content-Type")

\* res.json and res.end work on a channel that is sound and, for res.json
\* (which sets Content-Type), whose headers are not sent yet.
CanSend == chan = "ok" /\ ~headersSent

\* res.status(code).json(body): sets the status and the content type, writes
\* the body and ends the response.
SendJson(code, body) ==
    /\ status' = code
    /\ jsonBody' = body
    /\ headers' = SetHeader(headers, "Content-Type", "application/json")
    /\ headersSent' = TRUE
    /\ ended' = ended + 1
    /\ pc' = "done"

request == <<method, apiKey, reqBody>>
upstream == <<upstreamCalls, sent, response, errorText>>
relay == <<chunks, decoder, interrupted, relayedAtFault>>
reply == <<headers, status, jsonBody, ended, headersSent>>

----------------------------------------------------------------------------
(* The handler *)

Init ==
    /\ method \in Methods
    /\ apiKey \in BOOLEAN
    /\ reqBody \in RequestBodies
    /\ pc = "start"
    /\ headers = <<>>
    /\ status = 0
    /\ jsonBody = None
    /\ writes = <<>>
    /\ ended = 0
    /\ headersSent = FALSE
    /\ chan = "ok"
    /\ upstreamCalls = 0
    /\ sent = None
    /\ response = None
    /\ errorText = None
    /\ chunks = <<>>
    /\ decoder = NewDecoder
    /\ interrupted = FALSE
    /\ relayedAtFault = <<>>
    /\ err = NoError

\* Lines 3-5: the CORS headers, for every request.
SetCors ==
    /\ pc = "start"
    /\ headers' = CorsHeaders
    /\ pc' = "method"
    /\ UNCHANGED <<request, status, jsonBody, writes, ended, headersSent, chan,
                   upstream, relay, err>>

\* Lines 8-10: res.status(200).end().
Preflight ==
    /\ pc = "method"
    /\ method = "OPTIONS"
    /\ status' = 200
    /\ ended' = ended + 1
    /\ headersSent' = TRUE
    /\ pc' = "done"
    /\ UNCHANGED <<request, headers, jsonBody, writes, chan, upstream, relay, err>>

\* Lines 13-15.
MethodNotAllowed ==
    /\ pc = "method"
    /\ method # "OPTIONS"
    /\ method # "POST"
    /\ SendJson(405, [error |-> "Method not allowed"])
    /\ UNCHANGED <<request, writes, chan, upstream, relay, err>>

\* Lines 19-26 with the body read first: line 29 moved above the key check.
ConfigurationErrorAfterBody ==
    /\ pc = "method"
    /\ method = "POST"
    /\ ~apiKey
    /\ IF ExtractThrows(reqBody)
       THEN /\ err' = ExtractError(reqBody)
            /\ pc' = "catch"
            /\ UNCHANGED reply
       ELSE /\ SendJson(500, ConfigurationFailure)
            /\ err' = err
    /\ UNCHANGED <<request, writes, chan, upstream, relay>>

\* Lines 19-26: no API key.
ConfigurationError ==
    /\ pc = "method"
    /\ method = "POST"
    /\ ~apiKey
    /\ SendJson(500, ConfigurationFailure)
    /\ UNCHANGED <<request, writes, chan, upstream, relay, err>>

\* Lines 19-20: the API key is set.
KeyConfigured ==
    /\ pc = "method"
    /\ method = "POST"
    /\ apiKey
    /\ pc' = "extract"
    /\ UNCHANGED <<request, reply, writes, chan, upstream, relay, err>>

\* Line 29 throws; the outer catch takes over.
ExtractFails ==
    /\ pc = "extract"
    /\ ExtractThrows(reqBody)
    /\ err' = ExtractError(reqBody)
    /\ pc' = "catch"
    /\ UNCHANGED <<request, reply, writes, chan, upstream, relay>>

\* Line 29.
ExtractBody ==
    /\ pc = "extract"
    /\ ~ExtractThrows(reqBody)
    /\ pc' = "validate"
    /\ UNCHANGED <<request, reply, writes, chan, upstream, relay, err>>

\* Lines 32-38.
BadRequest ==
    /\ pc = "validate"
    /\ MissingRequired(reqBody)
    /\ SendJson(400, BadRequestFailure)
    /\ UNCHANGED <<request, writes, chan, upstream, relay, err>>

\* Lines 40-84 and 139-143, as far as the call of fetch: one call.
Dispatch ==
    /\ pc = "validate"
    /\ ~MissingRequired(reqBody)
    /\ upstreamCalls' = upstreamCalls + 1
    /\ sent' = UpstreamRequest(reqBody)
    /\ pc' = "fetching"
    /\ UNCHANGED <<request, reply, writes, chan, response, errorText, relay, err>>

\* fetch rejects and the call is issued once more before giving up.
FetchRejectsWithRetry ==
    /\ pc = "fetching"
    /\ IF upstreamCalls < 2
       THEN /\ upstreamCalls' = upstreamCalls + 1
            /\ UNCHANGED <<pc, err>>
       ELSE /\ \E e \in FetchErrors : err' = e
            /\ pc' = "catch"
            /\ UNCHANGED upstreamCalls
    /\ UNCHANGED <<request, reply, writes, chan, sent, response, errorText, relay>>

\* fetch rejects (lines 80, 139): the outer catch takes over.
FetchRejects ==
    /\ pc = "fetching"
    /\ \E e \in FetchErrors : err' = e
    /\ pc' = "catch"
    /\ UNCHANGED <<request, reply, writes, chan, upstream, relay>>

\* fetch resolves (lines 77, 80, 139): the branch is taken on `stream`.
FetchResolves ==
    /\ pc = "fetching"
    /\ \E r \in Responses : response' = r
    /\ pc' = IF Truthy(Field(reqBody, "stream")) THEN "streaming" ELSE "buffered"
    /\ UNCHANGED <<request, reply, writes, chan, upstreamCalls, sent, errorText,
                   relay, err>>

\* Lines 86-104: the upstream failed on a streaming request.
StreamUpstreamError ==
    /\ pc = "streaming"
    /\ ~Ok(response)
    /\ \E text \in ErrorTexts :
          /\ errorText' = [t |-> "text", text |-> text]
          /\ SendJson(response.status,
                      ApiFailure(StreamErrorMessage(response.status, text)))
    /\ UNCHANGED <<request, writes, chan, upstreamCalls, sent, response, relay, err>>

\* Line 87: response.text() rejects; the outer catch takes over.
StreamErrorTextFails ==
    /\ pc = "streaming"
    /\ ~Ok(response)
    /\ err' = BodyReadError
    /\ pc' = "catch"
    /\ UNCHANGED <<request, reply, writes, chan, upstream, relay>>

\* Lines 107-116: the streaming headers are staged, then the upstream turns
\* out to have no body.
StreamNoBody ==
    /\ pc = "streaming"
    /\ Ok(response)
    /\ ~response.hasBody
    /\ status' = 500
    /\ jsonBody' = [error |-> "No response body from DeepSeek-V3-0324 API"]
    /\ headers' = SetHeader(StreamingHeaders(headers), "Content-Type", "application/json")
    /\ headersSent' = TRUE
    /\ ended' = ended + 1
    /\ pc' = "done"
    /\ UNCHANGED <<request, writes, chan, upstream, relay, err>>

\* Lines 107-120: the streaming headers are staged and the reader is taken.
StreamStart ==
    /\ pc = "streaming"
    /\ Ok(response)
    /\ response.hasBody
    /\ headers' = StreamingHeaders(headers)
    /\ pc' = "relay"
    /\ UNCHANGED <<request, status, jsonBody, writes, ended, headersSent, chan,
                   upstream, relay, err>>

\* Lines 124-128: a chunk arrives, is decoded and written.  A write to a
\* broken channel throws, into the relay's catch block.
ReadChunk ==
    /\ pc = "relay"
    /\ Len(chunks) < MaxChunks
    /\ \E value \in Chunks :
          LET d == DecodeChunk(value, decoder)
          IN  /\ chunks' = Append(chunks, value)
              /\ decoder' = d.decoder
              /\ IF chan = "ok"
                 THEN /\ writes' = Append(writes, d.text)
                      /\ headersSent' = TRUE
                      /\ pc' = "relay"
                      /\ UNCHANGED <<interrupted, relayedAtFault>>
                 ELSE /\ interrupted' = TRUE
                      /\ relayedAtFault' = writes
                      /\ pc' = "relay_catch"
                      /\ UNCHANGED <<writes, headersSent>>
    /\ UNCHANGED <<request, headers, status, jsonBody, ended, chan, upstream, err>>

\* Lines 124-125 and 130: the upstream closes; res.end().
ReadDone ==
    /\ pc = "relay"
    /\ IF chan = "ok"
       THEN /\ ended' = ended + 1
            /\ headersSent' = TRUE
            /\ pc' = "done"
            /\ UNCHANGED <<interrupted, relayedAtFault>>
       ELSE /\ interrupted' = TRUE
            /\ relayedAtFault' = writes
            /\ pc' = "relay_catch"
            /\ UNCHANGED <<ended, headersSent>>
    /\ UNCHANGED <<request, headers, status, jsonBody, writes, chan, upstream,
                   chunks, decoder, err>>

\* Line 124: reader.read() rejects, into the relay's catch block.
ReadFault ==
    /\ pc = "relay"
    /\ interrupted' = TRUE
    /\ relayedAtFault' = writes
    /\ pc' = "relay_catch"
    /\ UNCHANGED <<request, reply, writes, chan, upstream, chunks, decoder, err>>

\* The caller's channel breaks while the stream is relayed.
ChannelFault ==
    /\ pc = "relay"
    /\ chan = "ok"
    /\ chan' = "broken"
    /\ UNCHANGED <<request, pc, reply, writes, upstream, relay, err>>

\* Lines 131-135: the synthetic event, then res.end().  Nothing guards the
\* write: on a broken channel it throws, into the outer catch.
RelayCatch ==
    /\ pc = "relay_catch"
    /\ IF chan = "ok"
       THEN /\ writes' = writes \o <<SyntheticEvent>>
            /\ headersSent' = TRUE
            /\ ended' = ended + 1
            /\ pc' = "done"
            /\ err' = err
       ELSE /\ err' = ChannelError
            /\ pc' = "catch"
            /\ UNCHANGED <<writes, headersSent, ended>>
    /\ UNCHANGED <<request, headers, status, jsonBody, chan, upstream, relay>>

\* Lines 145-165: the upstream failed on a buffered request.
UpstreamError ==
    /\ pc = "buffered"
    /\ ~Ok(response)
    /\ \E text \in ErrorTexts :
          /\ errorText' = [t |-> "text", text |-> text]
          /\ SendJson(response.status,
                      ApiFailure(ErrorMessage(response.status, text)))
    /\ UNCHANGED <<request, writes, chan, upstreamCalls, sent, response, relay, err>>

\* Line 146: response.text() rejects; the outer catch takes over.
ErrorTextFails ==
    /\ pc = "buffered"
    /\ ~Ok(response)
    /\ err' = BodyReadError
    /\ pc' = "catch"
    /\ UNCHANGED <<request, reply, writes, chan, upstream, relay>>

\* Lines 167-178: the decoded body is relayed with status 200.
RelayJson ==
    /\ pc = "buffered"
    /\ Ok(response)
    /\ \E data \in Datas : SendJson(200, data)
    /\ UNCHANGED <<request, writes, chan, upstream, relay, err>>

\* Line 167: response.json() rejects; the outer catch takes over.
JsonFails ==
    /\ pc = "buffered"
    /\ Ok(response)
    /\ err' = JsonParseError
    /\ pc' = "catch"
    /\ UNCHANGED <<request, reply, writes, chan, upstream, relay>>

\* Lines 181-195: the outer catch answers 500.
CatchResponds ==
    /\ pc = "catch"
    /\ err.hasMessage
    /\ CanSend
    /\ SendJson(500, [error |-> "Internal server error",
                      message |-> CatchMessage(err.message)])
    /\ UNCHANGED <<request, writes, chan, upstream, relay, err>>

\* Lines 185-186: error.message is not a string, so error.message.includes
\* throws inside the catch block and the handler's promise rejects.
CatchThrows ==
    /\ pc = "catch"
    /\ ~err.hasMessage
    /\ pc' = "escaped"
    /\ UNCHANGED <<request, reply, writes, chan, upstream, relay, err>>

\* Lines 192-195: res.status(500).json throws (the channel is broken, or the
\* headers are sent), and the handler's promise rejects.
CatchSendThrows ==
    /\ pc = "catch"
    /\ err.hasMessage
    /\ ~CanSend
    /\ pc' = "escaped"
    /\ UNCHANGED <<request, reply, writes, chan, upstream, relay, err>>

Next ==
    \/ SetCors
    \/ Preflight
    \/ MethodNotAllowed
    \/ ConfigurationError
    \/ KeyConfigured
    \/ ExtractFails
    \/ ExtractBody
    \/ BadRequest
    \/ Dispatch
    \/ FetchRejects
    \/ FetchResolves
    \/ StreamUpstreamError
    \/ StreamErrorTextFails
    \/ StreamNoBody
    \/ StreamStart
    \/ ReadChunk
    \/ ReadDone
    \/ ReadFault
    \/ ChannelFault
    \/ RelayCatch
    \/ UpstreamError
    \/ ErrorTextFails
    \/ RelayJson
    \/ JsonFails
    \/ CatchResponds
    \/ CatchThrows
    \/ CatchSendThrows

Spec == Init /\ [][Next]_vars

----------------------------------------------------------------------------
(* Properties *)

Finished == pc \in {"done", "escaped"}
Streaming == Truthy(Field(reqBody, "stream"))
FieldFalsy(k) == ~Truthy(Field(reqBody, k))

\* The relay loop was entered: a successful upstream response with a body.
RelayStarted == Streaming /\ response # None /\ Ok(response) /\ response.hasBody

\* The stream was relayed to its end without an error.
StreamCompleted == pc = "done" /\ RelayStarted /\ ~interrupted

RECURSIVE Flatten(_)
Flatten(seqs) ==
    IF seqs = <<>> THEN <<>> ELSE Head(seqs) \o Flatten(Tail(seqs))

\* res.write(text) puts the UTF-8 encoding of the text on the channel.
Encode(text) == Flatten(text)

\* The writes, each as the bytes it put on the channel.
WrittenChunks == [i \in DOMAIN writes |-> Encode(writes[i])]

\* Well-formed UTF-8 over the bytes of the model.
RECURSIVE WellFormed(_)
WellFormed(bytes) ==
    \/ bytes = <<>>
    \/ /\ IsAscii(Head(bytes))
       /\ WellFormed(Tail(bytes))
    \/ /\ Len(bytes) >= 2
       /\ bytes[1] = "C3"
       /\ IsContinuation(bytes[2])
       /\ WellFormed(SubSeq(bytes, 3, Len(bytes)))
    \/ /\ Len(bytes) >= 3
       /\ bytes[1] = "EF"
       /\ IsContinuation(bytes[2])
       /\ IsContinuation(bytes[3])
       /\ WellFormed(SubSeq(bytes, 4, Len(bytes)))

\* The bytes of the upstream stream.
StreamBytes == Flatten(chunks)

\* The stream without the bytes of a character it ends in the middle of.
WithoutOpenTail(bytes) ==
    LET n == Len(bytes)
    IN  IF n >= 1 /\ IsLead(bytes[n]) THEN SubSeq(bytes, 1, n - 1)
        ELSE IF n >= 2 /\ bytes[n - 1] = "EF" /\ IsContinuation(bytes[n])
        THEN SubSeq(bytes, 1, n - 2)
        ELSE bytes

StartsWithMark(bytes) == Len(bytes) >= 3 /\ SubSeq(bytes, 1, 3) = ByteOrderMark

WithoutLeadingMark(bytes) ==
    IF StartsWithMark(bytes) THEN SubSeq(bytes, 4, Len(bytes)) ELSE bytes

C2_NoKeyIs500 ==
    (method = "POST" /\ ~apiKey)
    => /\ upstreamCalls = 0
       /\ sent = None
       /\ pc \in {"start", "method", "done"}
       /\ pc = "done" => /\ status = 500
                         /\ jsonBody = ConfigurationFailure
                         /\ ended = 1

C2_Witness ==
    /\ pc = "done"
    /\ method = "POST"
    /\ ~apiKey
    /\ reqBody.kind = "absent"
    /\ status = 500
    /\ jsonBody = ConfigurationFailure

\* C3: on a streaming request an upstream failure with status S and error
\* text T is answered as the non-streaming path answers it: status S, the
\* error body of the non-streaming path for S and T, and no streaming header.
C3_StreamErrorsAsBuffered ==
    (pc = "done" /\ Streaming /\ errorText # None)
    => /\ status = response.status
       /\ jsonBody = ApiFailure(ErrorMessage(response.status, errorText.text))
       /\ "Cache-Control" \notin DOMAIN headers
       /\ "Connection" \notin DOMAIN headers
       /\ headers["Content-Type"] # "text/event-stream"

\* C4: on a request with stream absent or falsy an upstream failure with
\* status S and error text T is answered with status S; the message is the
\* fixed text for 400, 401, 429 and 503 and T unchanged for any other S.
C4_BufferedErrorRelayed ==
    (pc = "done" /\ ~Streaming /\ errorText # None)
    => /\ status = response.status
       /\ jsonBody.error = "API request failed"
       /\ jsonBody.message =
            CASE response.status = 400 -> BadFormatMessage
              [] response.status = 401 -> AuthMessage
              [] response.status = 429 -> RateLimitMessage
              [] response.status = 503 -> UnavailableMessage
              [] OTHER -> errorText.text

C4_Witness ==
    /\ pc = "done"
    /\ ~Streaming
    /\ errorText # None
    /\ errorText.text = <<"{\"error\":\"model overloaded\"}">>
    /\ response.status = 503
    /\ status = 503
    /\ jsonBody.message = UnavailableMessage

\* C5 as claimed, on a stream that is well-formed UTF-8 and starts with no
\* byte order mark: after a stream relayed to its end, the writes to the
\* caller are the upstream chunks (each write carries the bytes of its
\* chunk), the channel was closed once and no synthetic event was written.
C5_WritesEqualChunks ==
    (StreamCompleted /\ WellFormed(StreamBytes) /\ ~StartsWithMark(StreamBytes))
    => /\ WrittenChunks = chunks
       /\ ended = 1
       /\ \A i \in DOMAIN writes : writes[i] # SyntheticEvent

\* C5 as amended: after a stream relayed to its end there is one write per
\* chunk, in order.  The writes carry the bytes of their chunks one for one
\* whenever every chunk is well-formed UTF-8 on its own, and together the
\* bytes of the stream whenever these are well-formed UTF-8, in both cases
\* less a byte order mark at the start of the stream and less the bytes of a
\* character the stream ends in the middle of.  The channel was closed once,
\* nothing else was sent and no synthetic event was written.
C5_WritesDecodeChunks ==
    StreamCompleted
    => /\ Len(writes) = Len(chunks)
       /\ ((\A i \in DOMAIN chunks : WellFormed(chunks[i])) /\ ~StartsWithMark(StreamBytes))
             => WrittenChunks = chunks
       /\ WellFormed(WithoutOpenTail(StreamBytes))
             => Flatten(WrittenChunks) = WithoutLeadingMark(WithoutOpenTail(StreamBytes))
       /\ ended = 1
       /\ jsonBody = None
       /\ status = 0
       /\ \A i \in DOMAIN writes : writes[i] # SyntheticEvent

C5_Witness ==
    /\ StreamCompleted
    /\ chunks = <<<<"41">>, <<"C3">>, <<"A9">>>>
    /\ writes = <<<<(<<"41">>)>>, <<>>, <<(<<"C3", "A9">>)>>>>
    /\ ended = 1

\* C6: when an error interrupts the relay after k chunks were relayed, the
\* caller has received those k writes, then the synthetic event once, and
\* the channel was closed; no streaming execution that started relaying ends
\* with the channel left open.
C6_InterruptedRelayClosed ==
    /\ (Finished /\ interrupted)
          => /\ writes = relayedAtFault \o <<SyntheticEvent>>
             /\ ended = 1
    /\ (Finished /\ RelayStarted) => ended = 1

\* C7: the payload sent upstream contains tools exactly when the caller's
\* tools is a non-empty sequence, and tool_choice only together with tools
\* and only when the caller supplied one; with tools empty or absent it
\* contains neither key, whatever tool_choice the caller supplied.
C7_ToolsInPayload ==
    sent # None
    => LET tools == Field(reqBody, "tools")
           choice == Field(reqBody, "tool_choice")
           nonEmpty == tools.t = "arr" /\ tools.a # <<>>
       IN  /\ nonEmpty => /\ "tools" \in DOMAIN sent.body
                          /\ sent.body["tools"] = tools
                          /\ "tool_choice" \in DOMAIN sent.body
                                => /\ choice # Undefined
                                   /\ sent.body["tool_choice"] = choice
                          /\ Truthy(choice) => "tool_choice" \in DOMAIN sent.body
           /\ ~nonEmpty => /\ "tools" \notin DOMAIN sent.body
                           /\ "tool_choice" \notin DOMAIN sent.body

C7_Witness ==
    /\ sent # None
    /\ Field(reqBody, "tools") = Arr(<<>>)
    /\ Field(reqBody, "tool_choice") = Str("auto")
    /\ "tools" \notin DOMAIN sent.body
    /\ "tool_choice" \notin DOMAIN sent.body

\* The defaults as documented.
DocumentedDefault(k) ==
    CASE k = "temperature" -> Dec(0, 3)
      [] k = "top_p" -> Dec(0, 9)
      [] k = "top_k" -> Dec(40, 0)
      [] k = "max_tokens" -> Dec(8192, 0)
      [] k = "presence_penalty" -> Dec(0, 0)
      [] k = "frequency_penalty" -> Dec(0, 0)
      [] k = "stream" -> Bool(FALSE)

\* C8: for each optional parameter the payload sent upstream carries the
\* caller's value when it is truthy and the documented default otherwise; a
\* caller's 0 is replaced by the default.
C8_DefaultsSubstituted ==
    sent # None
    => \A k \in ParamNames :
          /\ k \in DOMAIN sent.body
          /\ sent.body[k] = IF Truthy(Field(reqBody, k))
                            THEN Field(reqBody, k)
                            ELSE DocumentedDefault(k)
          /\ (Field(reqBody, k) = Dec(0, 0)) => sent.body[k] = DocumentedDefault(k)

C8_Witness ==
    /\ sent # None
    /\ Field(reqBody, "temperature") = Dec(0, 0)
    /\ Field(reqBody, "top_k") = Dec(10, 0)
    /\ sent.body["temperature"] = Dec(0, 3)
    /\ sent.body["top_k"] = Dec(10, 0)

\* C9: no exception crosses the handler's boundary: whatever fails, the
\* handler ends by sending a response, and a failure that reached the outer
\* catch is answered 500 'Internal server error'.
C9_NoExceptionEscapes ==
    /\ pc # "escaped"
    /\ (pc = "done" /\ err # NoError)
          => /\ status = 500
             /\ jsonBody.error = "Internal server error"

\* C10: at most one upstream call is issued per request, whatever fails, and
\* only for a POST with the API key configured and model and messages
\* truthy; an OPTIONS request ends 200 with no body and any other method 405,
\* neither touching the upstream.
C10_AtMostOneUpstreamCall ==
    /\ upstreamCalls <= 1
    /\ upstreamCalls = 1 => /\ method = "POST"
                            /\ apiKey
                            /\ Truthy(Field(reqBody, "model"))
                            /\ Truthy(Field(reqBody, "messages"))
    /\ (pc = "done" /\ method = "OPTIONS")
          => /\ status = 200
             /\ jsonBody = None
             /\ writes = <<>>
             /\ upstreamCalls = 0
    /\ (pc = "done" /\ method \notin {"OPTIONS", "POST"})
          => /\ status = 405
             /\ upstreamCalls = 0

C10_Witness ==
    /\ pc = "done"
    /\ upstreamCalls = 1
    /\ err = [hasMessage |-> TRUE, message |-> <<"fetch", " failed">>]
    /\ status = 500

====
